---- MODULE Spec2Model ----
(***************************************************************************)
(* PitchCraft: the generation orchestrator (frontend hook useGeneration    *)
(* driven by ChatLayout) and the backend process supervisor                *)
(* (electron/main.js).                                                     *)
(*                                                                         *)
(* Scheduling model of the frontend: JavaScript run-to-completion.  A UI   *)
(* event or a network reply is one macrotask; the promise continuations it *)
(* makes runnable are microtasks and run before the next macrotask.        *)
(***************************************************************************)
EXTENDS Integers, Sequences, FiniteSets, TLC

\* ---------------------------------------------------------------- bounds
MaxTurns   == 2    \* handler invocations (handleGenerate / handleChatSend)
MaxHistory == 2    \* entries of quality_report.history in one reply
MaxSwitch  == 2    \* session switches
MaxQuits   == 2    \* before-quit events
MaxStarts  == 2    \* calls of startBackend in the repeated-start harness
MaxStoreOps == 3    \* operations on the session store
MaxSessTurns == 1   \* handler invocations in the session-switch harness
MaxSessSwitch == 1  \* session switches in the session-switch harness

\* ------------------------------------------------------ program constants
HealthAttempts == 60   \* waitForBackend(attempts = 60)
MAX_SESSIONS   == 50   \* const MAX_SESSIONS = 50

\* ------------------------------------------------------ orchestrator state
VARIABLES
    phase,            \* useGeneration: useState<GenerationPhase>
    previewData,      \* useGeneration: useState<PreviewData | null>
    abortRef,         \* useGeneration: abortRef.current (0 = null, else controller)
    sessions,         \* useChatSessions: session id -> record
    activeSessionId,  \* useChatSessions: active session id (0 = null)
    pendingClarify,   \* ChatLayout: useState(false)
    clarifyParams,    \* ChatLayout: original_prompt of the paused turn (0 = {})
    turns,            \* the async frames of handleGenerate / handleChatSend
    nTurns,           \* number of frames created so far
    infoFetch,        \* ChatLayout preview-load effect: fetches in flight per download id
    switches          \* number of session switches so far

\* -------------------------------------------------------- supervisor state
VARIABLES
    appPc,            \* position of the app.whenReady handler
    running,          \* the application process has not exited
    darwin,           \* process.platform === 'darwin'
    backendProcess,   \* main.js: let backendProcess (0 = null, else process id)
    procs,            \* process id -> [alive, killed] of the spawned ChildProcess
    spawnCount,       \* number of spawn() calls
    sigterms,         \* number of SIGTERM signals delivered to a backend process
    starts,           \* frames of startBackend: the waitForBackend loop of each call
    probes,           \* number of checkHealth requests issued
    pending,          \* number of checkHealth requests not yet settled
    mainWindow,       \* the main window exists
    splashWindow,     \* the splash window exists
    setupWindow,      \* the first-run setup window exists
    dialog,           \* the modal shown to the operator
    logOpened,        \* shell.openPath(LOG_FILE) was called
    quits,            \* number of before-quit events
    cfgWarned,        \* 'Warning: could not patch pyvenv.cfg' was logged
    keyFile           \* content of KEY_FILE ("absent": no such file)

\* ------------------------------------------------------ session store state
VARIABLES
    stSessions,       \* useChatSessions: useState<ChatSession[]>, as a list
    stStored,         \* localStorage[STORAGE_KEY], parsed
    stActive,         \* localStorage[ACTIVE_KEY], null when the key is absent
    stNow,            \* Date.now()
    stOps             \* number of store operations so far

storeVars == <<stSessions, stStored, stActive, stNow, stOps>>

supVars == <<appPc, running, darwin, backendProcess, procs, spawnCount, sigterms,
             starts, probes, pending, mainWindow, splashWindow, setupWindow,
             dialog, logOpened, quits, cfgWarned, keyFile>>

vars == <<phase, previewData, abortRef, sessions, activeSessionId,
          pendingClarify, clarifyParams, turns, nTurns, infoFetch, switches,
          appPc, running, darwin, backendProcess, procs, spawnCount, sigterms,
          starts, probes, pending, mainWindow, splashWindow, setupWindow,
          dialog, logOpened, quits, cfgWarned, keyFile,
          stSessions, stStored, stActive, stNow, stOps>>

orchVars == <<phase, previewData, abortRef, sessions, activeSessionId,
              pendingClarify, clarifyParams, turns, nTurns, infoFetch, switches>>

SessionIds == {1, 2}
TurnIds    == 1..MaxTurns
DlIds      == TurnIds          \* the backend's download_id of turn t is t
Busy       == {"clarifying", "generating", "converting"}
SlideCount == 12               \* a positive total_slides reply

null == 0

NoPreview == [downloadId |-> 0, filename |-> 0, totalSlides |-> 0]

PreviewData(dl, fn, n) == [downloadId |-> dl, filename |-> fn, totalSlides |-> n]

\* the filename the backend returns with download id dl
FilenameOf(dl) == dl

\* makeMessage: role, content, the turn that produced it, position in the
\* quality report, artifact reference
Msg(role, content, t, idx, dl, n) ==
    [role |-> role, content |-> content, turn |-> t, idx |-> idx,
     dl |-> dl, slides |-> n]

\* a frame of handleGenerate / handleChatSend:
\*   pc    where the frame is suspended
\*   sid   activeSessionId captured by the closures of the frame
\*   kind  "generate" or "iterate" once the frame has called one of them
\*   entry "workspace" (handleGenerate) or "chat" (handleChatSend)
\*   dl    download_id returned by the backend
\*   clar  clarifications.original_prompt sent with generate (0 = none)
\*   arg   downloadId sent with iterate (0 = none)
NoTurn == [pc |-> "unused", sid |-> 0, kind |-> "none", entry |-> "none",
           dl |-> 0, clar |-> 0, arg |-> 0]

\* --------------------------------------------------------- SessionStore
\* useChatSessions.addMessage: prev.map, only the session with that id changes
addMessage(ss, sid, m) ==
    [s \in DOMAIN ss |->
        IF s = sid THEN [ss[s] EXCEPT !.messages = Append(@, m)] ELSE ss[s]]

\* the same, for a sequence of messages appended in order
RECURSIVE addMessages(_, _, _)
addMessages(ss, sid, ms) ==
    IF ms = <<>> THEN ss
    ELSE addMessages(addMessage(ss, sid, Head(ms)), sid, Tail(ms))

\* useChatSessions.updateSession with {lastDownloadId, lastFilename}
updateSession(ss, sid, dl, fn) ==
    [s \in DOMAIN ss |->
        IF s = sid THEN [ss[s] EXCEPT !.lastDownloadId = dl, !.lastFilename = fn]
        ELSE ss[s]]

\* ------------------------------------------------- run-to-completion rule
\* an aborted request has rejected its promise: its continuation is a
\* pending microtask and runs before any other event
Aborted == {"gen_aborted", "conv_aborted"}

Quiescent == \A t \in TurnIds : turns[t].pc \notin Aborted

InFlight == {t \in TurnIds : turns[t].pc \in {"clarify_wait", "gen_wait", "conv_wait"}}

OrchInit ==
    /\ phase = "idle"
    /\ previewData = NoPreview
    /\ abortRef = null
    /\ sessions = [s \in SessionIds |->
                     [messages |-> <<>>, lastDownloadId |-> 0, lastFilename |-> 0]]
    /\ activeSessionId = 1
    /\ pendingClarify = FALSE
    /\ clarifyParams = 0
    /\ turns = [t \in TurnIds |-> NoTurn]
    /\ nTurns = 0
    /\ infoFetch = [d \in DlIds |-> 0]
    /\ switches = 0

\* ------------------------------------------------------- useGeneration
\* closureSession reading the activeSessionId of the latest render
closureSession_Latest(t) == activeSessionId

\* the activeSessionId that the clarify/generate/iterate closure of frame t
\* was created with (useCallback dependency): fixed for the whole call
closureSession(t) == turns[t].sid

\* generate()/iterate() up to the await of the POST: new AbortController,
\* abortRef.current = controller, setPhase("generating"), the progress message
StartMsg(kind) == IF kind = "iterate" THEN "updating" ELSE "generating"

\* generateStartSessions with an iterate() that posts no progress message
generateStartSessions_IterateSilent(ss, t, sid, kind) ==
    IF kind = "iterate" THEN ss
    ELSE addMessage(ss, sid, Msg("assistant", StartMsg(kind), t, 0, 0, 0))

generateStartSessions(ss, t, sid, kind) ==
    addMessage(ss, sid, Msg("assistant", StartMsg(kind), t, 0, 0, 0))

\* ErrorDetail without the ECONNABORTED case of generate's catch block
ErrorDetail_NoTimeoutCase(kind, out) ==
    IF out = "http" THEN "detail"
    ELSE "failed"

\* the cause string of the catch block
ErrorDetail(kind, out) ==
    IF out = "http" THEN "detail"
    ELSE IF kind = "generate" /\ out = "timeout" THEN "timeout"
    ELSE "failed"

\* ThinkingMsgs appended from the last entry of the history to the first
ThinkingMsgs_Reversed(t, h) ==
    [i \in 1..h |-> Msg("thinking", "reasoning", t, h + 1 - i, 0, 0)]

\* the "thinking" messages of quality_report.history, in the order received
ThinkingMsgs(t, h) == [i \in 1..h |-> Msg("thinking", "reasoning", t, i, 0, 0)]

\* Complete without the updateSession call that stores the download info
Complete_NoUpdateSession(t, n) ==
    LET sid == closureSession(t)
        dl  == turns[t].dl
        fn  == FilenameOf(dl)
    IN  /\ previewData' = PreviewData(dl, fn, n)
        /\ sessions' = addMessage(sessions, sid, Msg("preview", "ready", t, 0, dl, n))
        /\ phase' = "done"
        /\ abortRef' = null
        /\ turns' = [turns EXCEPT ![t].pc = "finished"]

\* generate()/iterate() after the metadata fetch: setPreviewData, the preview
\* message, updateSession, setPhase("done"), finally abortRef.current = null
Complete(t, n) ==
    LET sid == closureSession(t)
        dl  == turns[t].dl
        fn  == FilenameOf(dl)
    IN  /\ previewData' = PreviewData(dl, fn, n)
        /\ sessions' = updateSession(
                          addMessage(sessions, sid, Msg("preview", "ready", t, 0, dl, n)),
                          sid, dl, fn)
        /\ phase' = "done"
        /\ abortRef' = null
        /\ turns' = [turns EXCEPT ![t].pc = "finished"]

\* ChatLayout.handleGenerate: the workspace prompt
HandleGenerate ==
    /\ Quiescent
    /\ phase \notin Busy                      \* WorkspacePanel: isGenerating
    /\ activeSessionId \in DOMAIN sessions
    /\ nTurns < MaxTurns
    /\ LET t   == nTurns + 1
           sid == activeSessionId
           s1  == addMessage(sessions, sid, Msg("user", "prompt", t, 0, 0, 0))
       IN  /\ nTurns' = t
           /\ IF pendingClarify
              THEN /\ pendingClarify' = FALSE
                   /\ turns' = [turns EXCEPT ![t] =
                         [pc |-> "gen_wait", sid |-> sid, kind |-> "generate",
                          entry |-> "workspace", dl |-> 0, clar |-> clarifyParams,
                          arg |-> 0]]
                   /\ abortRef' = t
                   /\ phase' = "generating"
                   /\ sessions' = generateStartSessions(s1, t, sid, "generate")
              ELSE /\ turns' = [turns EXCEPT ![t] =
                         [pc |-> "clarify_wait", sid |-> sid, kind |-> "none",
                          entry |-> "workspace", dl |-> 0, clar |-> 0, arg |-> 0]]
                   /\ phase' = "clarifying"
                   /\ sessions' = s1
                   /\ UNCHANGED <<abortRef, pendingClarify>>
    /\ UNCHANGED <<previewData, activeSessionId, clarifyParams, infoFetch, switches>>
    /\ UNCHANGED <<supVars, storeVars>>

\* HandleChatSend without the pendingClarify branch: the answer is sent as a
\* new prompt, with no clarifications
HandleChatSend_IgnoresPending ==
    /\ Quiescent
    /\ phase \notin Busy
    /\ activeSessionId \in DOMAIN sessions
    /\ nTurns < MaxTurns
    /\ LET t    == nTurns + 1
           sid  == activeSessionId
           s1   == addMessage(sessions, sid, Msg("user", "prompt", t, 0, 0, 0))
           kind == IF previewData # NoPreview THEN "iterate" ELSE "generate"
       IN  /\ nTurns' = t
           /\ pendingClarify' = FALSE
           /\ turns' = [turns EXCEPT ![t] =
                 [pc |-> "gen_wait", sid |-> sid, kind |-> kind, entry |-> "chat",
                  dl |-> 0,
                  clar |-> 0,
                  arg |-> IF kind = "iterate" THEN previewData.downloadId ELSE 0]]
           /\ abortRef' = t
           /\ phase' = "generating"
           /\ sessions' = generateStartSessions(s1, t, sid, kind)
    /\ UNCHANGED <<previewData, activeSessionId, clarifyParams, infoFetch, switches>>
    /\ UNCHANGED <<supVars, storeVars>>

\* ChatLayout.handleChatSend: the chat input
HandleChatSend ==
    /\ Quiescent
    /\ phase \notin Busy                      \* ChatInput: isGenerating
    /\ activeSessionId \in DOMAIN sessions
    /\ nTurns < MaxTurns
    /\ LET t    == nTurns + 1
           sid  == activeSessionId
           s1   == addMessage(sessions, sid, Msg("user", "prompt", t, 0, 0, 0))
           kind == IF ~pendingClarify /\ previewData # NoPreview
                   THEN "iterate" ELSE "generate"
       IN  /\ nTurns' = t
           /\ pendingClarify' = FALSE
           /\ turns' = [turns EXCEPT ![t] =
                 [pc |-> "gen_wait", sid |-> sid, kind |-> kind, entry |-> "chat",
                  dl |-> 0,
                  clar |-> IF pendingClarify THEN clarifyParams ELSE 0,
                  arg |-> IF kind = "iterate" THEN previewData.downloadId ELSE 0]]
           /\ abortRef' = t
           /\ phase' = "generating"
           /\ sessions' = generateStartSessions(s1, t, sid, kind)
    /\ UNCHANGED <<previewData, activeSessionId, clarifyParams, infoFetch, switches>>
    /\ UNCHANGED <<supVars, storeVars>>

\* the reply of POST /api/clarify: its needs_clarification flag and the
\* length of its questions list ("empty" is the flag with an empty list)
needs_clarification(out) == out \in {"questions", "empty"}

questionsLength(out) == IF out = "questions" THEN 2 ELSE 0

\* what useGeneration.clarify returns: the questions when the reply has
\* needs_clarification and a non-empty list, null when it has not, and null
\* from the empty catch block when the POST fails or times out, or when the
\* destructuring of a null body throws ("malformed")
clarifyReturn(out) ==
    IF out \in {"fail", "malformed"} THEN "null"
    ELSE IF needs_clarification(out) /\ questionsLength(out) > 0 THEN "questions"
    ELSE "null"

\* ClarifyReply with a catch block that reports the failure like generate does
ClarifyReply_SurfacesFailure(t, out) ==
    /\ Quiescent
    /\ turns[t].pc = "clarify_wait"
    /\ LET sid == closureSession(t)
       IN  IF out = "fail"
           THEN /\ sessions' = addMessage(sessions, sid,
                                   Msg("assistant", "failed", t, 0, 0, 0))
                /\ phase' = "error"
                /\ turns' = [turns EXCEPT ![t].pc = "finished"]
                /\ UNCHANGED <<abortRef, pendingClarify, clarifyParams>>
           ELSE IF clarifyReturn(out) = "questions"
           THEN /\ sessions' = addMessage(sessions, sid,
                                   Msg("assistant", "questions", t, 0, 0, 0))
                /\ pendingClarify' = TRUE
                /\ clarifyParams' = t
                /\ turns' = [turns EXCEPT ![t].pc = "finished"]
                /\ UNCHANGED <<phase, abortRef>>
           ELSE /\ sessions' = generateStartSessions(sessions, t, sid, "generate")
                /\ abortRef' = t
                /\ phase' = "generating"
                /\ turns' = [turns EXCEPT ![t].pc = "gen_wait", ![t].kind = "generate"]
                /\ UNCHANGED <<pendingClarify, clarifyParams>>
    /\ UNCHANGED <<previewData, activeSessionId, nTurns, infoFetch, switches>>
    /\ UNCHANGED <<supVars, storeVars>>

\* useGeneration.clarify settles and handleGenerate resumes
ClarifyReply(t, out) ==
    /\ Quiescent
    /\ turns[t].pc = "clarify_wait"
    /\ LET sid == closureSession(t)
       IN  IF clarifyReturn(out) = "questions"
           THEN /\ sessions' = addMessage(sessions, sid,
                                   Msg("assistant", "questions", t, 0, 0, 0))
                /\ pendingClarify' = TRUE
                /\ clarifyParams' = t
                /\ turns' = [turns EXCEPT ![t].pc = "finished"]
                /\ UNCHANGED <<phase, abortRef>>
           ELSE /\ sessions' = generateStartSessions(sessions, t, sid, "generate")
                /\ abortRef' = t
                /\ phase' = "generating"
                /\ turns' = [turns EXCEPT ![t].pc = "gen_wait", ![t].kind = "generate"]
                /\ UNCHANGED <<pendingClarify, clarifyParams>>
    /\ UNCHANGED <<previewData, activeSessionId, nTurns, infoFetch, switches>>
    /\ UNCHANGED <<supVars, storeVars>>

\* GenerateReply with a try/finally and no catch block: a failure leaves
\* generate()/iterate() as a rejected promise
GenerateReply_NoCatch(t, out, h) ==
    /\ Quiescent
    /\ turns[t].pc = "gen_wait"
    /\ LET sid == closureSession(t)
       IN  IF out = "ok"
           THEN /\ sessions' = addMessages(sessions, sid, ThinkingMsgs(t, h))
                /\ phase' = "converting"
                /\ turns' = [turns EXCEPT ![t].pc = "conv_wait", ![t].dl = t]
                /\ UNCHANGED abortRef
           ELSE /\ h = 0
                /\ abortRef' = null
                /\ turns' = [turns EXCEPT ![t].pc = "rejected"]
                /\ UNCHANGED <<sessions, phase>>
    /\ UNCHANGED <<previewData, activeSessionId, pendingClarify, clarifyParams,
                   nTurns, infoFetch, switches>>
    /\ UNCHANGED <<supVars, storeVars>>

\* the POST /api/generate or /api/generate-iterate settles (not aborted);
\* "malformed" is a 2xx reply with a null body, whose destructuring throws
\* a TypeError inside the try
GenerateReply(t, out, h) ==
    /\ Quiescent
    /\ turns[t].pc = "gen_wait"
    /\ LET sid == closureSession(t)
       IN  IF out = "ok"
           THEN /\ sessions' = addMessages(sessions, sid, ThinkingMsgs(t, h))
                /\ phase' = "converting"
                /\ turns' = [turns EXCEPT ![t].pc = "conv_wait", ![t].dl = t]
                /\ UNCHANGED abortRef
           ELSE /\ h = 0
                /\ sessions' = addMessage(sessions, sid,
                       Msg("assistant", ErrorDetail(turns[t].kind, out), t, 0, 0, 0))
                /\ phase' = "error"
                /\ abortRef' = null
                /\ turns' = [turns EXCEPT ![t].pc = "finished"]
    /\ UNCHANGED <<previewData, activeSessionId, pendingClarify, clarifyParams,
                   nTurns, infoFetch, switches>>
    /\ UNCHANGED <<supVars, storeVars>>

\* totalSlides after the inner try of generate()/iterate(): the reply's
\* total_slides || 0, and the initial 0 when the fetch throws into the
\* empty catch
totalSlides(out) ==
    IF out \in {"fail", "malformed"} THEN 0
    ELSE IF out = "slides" THEN SlideCount ELSE 0

\* PreviewReply with a metadata failure handled by the outer catch block
PreviewReply_FailureFatal(t, out) ==
    /\ Quiescent
    /\ turns[t].pc = "conv_wait"
    /\ IF out = "fail"
       THEN /\ sessions' = addMessage(sessions, closureSession(t),
                               Msg("assistant", "failed", t, 0, 0, 0))
            /\ phase' = "error"
            /\ abortRef' = null
            /\ turns' = [turns EXCEPT ![t].pc = "finished"]
            /\ UNCHANGED previewData
       ELSE Complete(t, totalSlides(out))
    /\ UNCHANGED <<activeSessionId, pendingClarify, clarifyParams, nTurns,
                   infoFetch, switches>>
    /\ UNCHANGED <<supVars, storeVars>>

\* the GET /api/preview/{id}/info settles (not aborted)
PreviewReply(t, out) ==
    /\ Quiescent
    /\ turns[t].pc = "conv_wait"
    /\ Complete(t, totalSlides(out))
    /\ UNCHANGED <<activeSessionId, pendingClarify, clarifyParams, nTurns,
                   infoFetch, switches>>
    /\ UNCHANGED <<supVars, storeVars>>

\* useGeneration.cancel
Cancel ==
    /\ Quiescent
    /\ phase \in Busy                         \* the cancel button is shown
    /\ turns' = IF abortRef # null /\ turns[abortRef].pc = "gen_wait"
                THEN [turns EXCEPT ![abortRef].pc = "gen_aborted"]
                ELSE IF abortRef # null /\ turns[abortRef].pc = "conv_wait"
                THEN [turns EXCEPT ![abortRef].pc = "conv_aborted"]
                ELSE turns
    /\ phase' = "idle"
    /\ sessions' = IF activeSessionId # null
                   THEN addMessage(sessions, activeSessionId,
                                   Msg("system", "cancelled", 0, 0, 0, 0))
                   ELSE sessions
    /\ UNCHANGED <<previewData, abortRef, activeSessionId, pendingClarify,
                   clarifyParams, nTurns, infoFetch, switches>>
    /\ UNCHANGED <<supVars, storeVars>>

\* SettleAborted without the axios.isCancel(err) early return of the catch block
SettleAborted_NoCancelCheck(t) ==
    /\ turns[t].pc \in Aborted
    /\ IF turns[t].pc = "gen_aborted"
       THEN /\ sessions' = addMessage(sessions, closureSession(t),
                               Msg("assistant", "failed", t, 0, 0, 0))
            /\ phase' = "error"
            /\ abortRef' = null
            /\ turns' = [turns EXCEPT ![t].pc = "finished"]
            /\ UNCHANGED previewData
       ELSE Complete(t, 0)
    /\ UNCHANGED <<activeSessionId, pendingClarify, clarifyParams, nTurns,
                   infoFetch, switches>>
    /\ UNCHANGED <<supVars, storeVars>>

\* the continuation of an aborted request (axios rejects with a cancel error)
SettleAborted(t) ==
    /\ turns[t].pc \in Aborted
    /\ IF turns[t].pc = "gen_aborted"
       THEN \* catch: axios.isCancel(err) -> return; finally
            /\ abortRef' = null
            /\ turns' = [turns EXCEPT ![t].pc = "finished"]
            /\ UNCHANGED <<phase, previewData, sessions>>
       ELSE \* the inner catch swallows the cancel error, totalSlides stays 0
            Complete(t, 0)
    /\ UNCHANGED <<activeSessionId, pendingClarify, clarifyParams, nTurns,
                   infoFetch, switches>>
    /\ UNCHANGED <<supVars, storeVars>>

\* ChatLayout.handleSelectSession and the preview-load effect it triggers
SelectSession(id) ==
    /\ Quiescent
    /\ switches < MaxSwitch
    /\ id \in DOMAIN sessions
    /\ switches' = switches + 1
    /\ activeSessionId' = id
    /\ pendingClarify' = FALSE
    /\ IF id = activeSessionId
       THEN UNCHANGED <<previewData, infoFetch>>
       ELSE IF sessions[id].lastDownloadId # 0
       THEN /\ previewData' = PreviewData(sessions[id].lastDownloadId,
                                          sessions[id].lastFilename, 0)
            /\ infoFetch' = [infoFetch EXCEPT ![sessions[id].lastDownloadId] = @ + 1]
       ELSE /\ previewData' = NoPreview
            /\ UNCHANGED infoFetch
    /\ UNCHANGED <<phase, abortRef, sessions, clarifyParams, turns, nTurns>>
    /\ UNCHANGED <<supVars, storeVars>>

\* the fetch of the preview-load effect settles
InfoFetchReply(d, out) ==
    /\ Quiescent
    /\ infoFetch[d] > 0
    /\ infoFetch' = [infoFetch EXCEPT ![d] = @ - 1]
    /\ previewData' =
          IF out = "slides"
          THEN (IF previewData # NoPreview
                THEN [previewData EXCEPT !.totalSlides = SlideCount] ELSE NoPreview)
          ELSE IF out = "fail" THEN NoPreview
          ELSE previewData
    /\ UNCHANGED <<phase, abortRef, sessions, activeSessionId, pendingClarify,
                   clarifyParams, turns, nTurns, switches>>
    /\ UNCHANGED <<supVars, storeVars>>

\* lengths of quality_report.history in a reply: missing or empty, or full
HistoryLengths   == {0, MaxHistory}
ClarifyOutcomes  == {"questions", "none", "empty", "fail", "malformed"}
GenerateOutcomes == {"ok", "http", "timeout", "network", "malformed"}
InfoOutcomes     == {"slides", "zero", "fail"}
\* the metadata GET inside generate()/iterate(): also a reply with a null body
PreviewOutcomes  == InfoOutcomes \cup {"malformed"}

OrchNext ==
    \/ HandleGenerate
    \/ HandleChatSend
    \/ Cancel
    \/ \E t \in TurnIds, out \in ClarifyOutcomes : ClarifyReply(t, out)
    \/ \E t \in TurnIds, out \in GenerateOutcomes, h \in HistoryLengths :
          GenerateReply(t, out, h)
    \/ \E t \in TurnIds, out \in PreviewOutcomes : PreviewReply(t, out)
    \/ \E t \in TurnIds : SettleAborted(t)

\* the orchestrator with session switches
SessNext ==
    \/ OrchNext
    \/ \E id \in SessionIds : SelectSession(id)
    \/ \E d \in DlIds, out \in InfoOutcomes : InfoFetchReply(d, out)

\* ===================================================== electron/main.js
\* the state of the orchestrator before the UI is loaded / of the supervisor
\* once the UI is loaded
SupInit ==
    /\ appPc = "boot"
    /\ running = TRUE
    /\ darwin \in BOOLEAN
    /\ backendProcess = null
    /\ procs = <<>>
    /\ spawnCount = 0
    /\ sigterms = 0
    /\ starts = <<>>
    /\ probes = 0
    /\ pending = 0
    /\ mainWindow = FALSE
    /\ splashWindow = FALSE
    /\ setupWindow = FALSE
    /\ dialog = "none"
    /\ logOpened = FALSE
    /\ quits = 0
    /\ cfgWarned = FALSE
    /\ keyFile \in {"absent", "", "sk"}

SupReady ==
    /\ appPc = "ready"
    /\ running = TRUE
    /\ darwin = TRUE
    /\ backendProcess = 1
    /\ procs = <<[alive |-> TRUE, killed |-> FALSE, key |-> "sk"]>>
    /\ spawnCount = 1
    /\ sigterms = 0
    /\ starts = <<[pc |-> "true", i |-> 0]>>
    /\ probes = 1
    /\ pending = 0
    /\ mainWindow = TRUE
    /\ splashWindow = FALSE
    /\ setupWindow = FALSE
    /\ dialog = "none"
    /\ logOpened = FALSE
    /\ quits = 0
    /\ cfgWarned = FALSE
    /\ keyFile = "sk"

\* texts of a key: empty, blank, the key found on the machine, a key typed
\* by the operator with and without surrounding blanks
KeyTexts == {"", "  ", "sk", " k2 ", "k2"}

\* String.prototype.trim
trim(k) == IF k = "  " THEN "" ELSE IF k = " k2 " THEN "k2" ELSE k

\* !apiKey: null and the empty string are falsy
falsy(k) == k \in {"null", ""}

\* a key found in backend/.env or in process.env.OPENAI_API_KEY ("none": neither)
EnvKeys == {"none", "sk"}

\* loadApiKey: KEY_FILE trimmed when non-empty, else the .env files or the
\* environment variable, else null
loadApiKey(file, envKey) ==
    IF file # "absent" /\ trim(file) # "" THEN trim(file)
    ELSE IF envKey # "none" THEN envKey
    ELSE "null"

\* what the operator does in the setup window
SetupInputs == {"cancel", "closed"} \cup (KeyTexts \ {"", "sk"})

\* saveApiKey, called by the 'api-key-submit' listener only
saveApiKey(file, sub) ==
    IF sub \in {"cancel", "closed"} THEN file ELSE trim(sub)

\* showSetup resolving the submitted text as it was typed
showSetup_NoTrim(sub) ==
    IF sub \in {"cancel", "closed"} THEN "null" ELSE sub

\* the value showSetup resolves with
showSetup(sub) ==
    IF sub \in {"cancel", "closed"} THEN "null" ELSE trim(sub)

\* checkHealth: resolve(res.statusCode === 200); error and timeout resolve false
ProbeOutcomes == {"200", "500", "error", "timeout"}

\* checkHealth resolving true on any HTTP response
checkHealth_AnyResponse(res) == res \in {"200", "500"}

checkHealth(res) == res = "200"

\* ChildProcess.kill('SIGTERM') guarded by the before-quit handler:
\* the signal is delivered only to a process that has not exited
stopProcs(ps, bp) ==
    IF bp # null /\ ~ps[bp].killed /\ ps[bp].alive
    THEN [ps EXCEPT ![bp].killed = TRUE]
    ELSE ps

\* stopSignals without the !backendProcess.killed guard
stopSignals_NoKilledCheck(ps, bp) ==
    IF bp # null /\ ps[bp].alive THEN 1 ELSE 0

stopSignals(ps, bp) ==
    IF bp # null /\ ~ps[bp].killed /\ ps[bp].alive THEN 1 ELSE 0

\* app.quit(): before-quit is emitted, then, no window vetoing, the app exits
AppQuit ==
    /\ procs' = stopProcs(procs, backendProcess)
    /\ sigterms' = sigterms + stopSignals(procs, backendProcess)
    /\ quits' = quits + 1
    /\ running' = FALSE

\* whenReady handler, ready branch: closeSplash, createMainWindow
HandlerReady ==
    /\ appPc' = "ready"
    /\ splashWindow' = FALSE
    /\ mainWindow' = TRUE
    /\ UNCHANGED <<running, procs, sigterms, dialog, logOpened, quits>>

\* whenReady handler, not-ready branch: closeSplash, the startup-error dialog
\* naming LOG_FILE with the buttons Open Log (0) / Quit (1), app.quit()
HandlerNotReady(choice) ==
    /\ appPc' = "done"
    /\ splashWindow' = FALSE
    /\ dialog' = "startup_error"
    /\ logOpened' = (choice = 0)
    /\ AppQuit
    /\ UNCHANGED mainWindow

\* startBackend up to the first await: spawn, then waitForBackend issues
\* the first checkHealth
Spawn(apiKey) ==
    /\ procs' = Append(procs, [alive |-> TRUE, killed |-> FALSE, key |-> apiKey])
    /\ backendProcess' = Len(procs) + 1
    /\ spawnCount' = spawnCount + 1
    /\ starts' = Append(starts, [pc |-> "probing", i |-> 0])
    /\ probes' = probes + 1
    /\ pending' = pending + 1

\* what the pyvenv.cfg block of startBackend meets: "dev" is IS_DEV (the block
\* is skipped), "current" a file whose home line is already right, "patched" a
\* file that is rewritten, "failed" a read or write that throws
PatchOutcomes == {"dev", "current", "patched", "failed"}

\* patchPyvenvCfg without the try/catch around the read and the write
patchPyvenvCfg_Uncaught(cfg) ==
    [warned |-> FALSE, thrown |-> cfg = "failed"]

\* the pyvenv.cfg block of startBackend: the catch logs a warning and the
\* function goes on; thrown says whether an error leaves startBackend
patchPyvenvCfg(cfg) ==
    [warned |-> cfg = "failed", thrown |-> FALSE]

\* BeginStartup without the fs.existsSync(python) check of startBackend
BeginStartup_NoExistsCheck(apiKey, pythonExists, cfg) ==
    /\ Spawn(apiKey)
    /\ appPc' = "starting"
    /\ splashWindow' = TRUE
    /\ cfgWarned' = (cfgWarned \/ patchPyvenvCfg(cfg).warned)
    /\ UNCHANGED <<running, sigterms, dialog, quits>>

\* Step 2 of the whenReady handler: createSplash, startBackend(apiKey)
BeginStartup(apiKey, pythonExists, cfg) ==
    IF pythonExists /\ ~patchPyvenvCfg(cfg).thrown
    THEN /\ Spawn(apiKey)
         /\ appPc' = "starting"
         /\ splashWindow' = TRUE
         /\ cfgWarned' = (cfgWarned \/ patchPyvenvCfg(cfg).warned)
         /\ UNCHANGED <<running, sigterms, dialog, quits>>
    ELSE \* startBackend throws; catch: closeSplash, showErrorBox, app.quit()
         /\ appPc' = "done"
         /\ splashWindow' = FALSE
         /\ dialog' = "fatal"
         /\ AppQuit
         /\ cfgWarned' = (cfgWarned \/ (pythonExists /\ patchPyvenvCfg(cfg).warned))
         /\ UNCHANGED <<backendProcess, spawnCount, starts, probes, pending>>

\* app.whenReady().then(...): Step 1, and Step 2 when a key is loaded
WhenReady(envKey, pythonExists, cfg) ==
    /\ running
    /\ appPc = "boot"
    /\ IF ~falsy(loadApiKey(keyFile, envKey))
       THEN /\ BeginStartup(loadApiKey(keyFile, envKey), pythonExists, cfg)
            /\ UNCHANGED setupWindow
       ELSE /\ appPc' = "setup"
            /\ setupWindow' = TRUE
            /\ UNCHANGED <<running, backendProcess, procs, spawnCount, sigterms,
                           starts, probes, pending, splashWindow, dialog, quits,
                           cfgWarned>>
    /\ UNCHANGED <<darwin, mainWindow, logOpened, keyFile>>
    /\ UNCHANGED <<orchVars, storeVars>>

\* showSetup resolves: 'api-key-submit' with the text of the input (saveApiKey,
\* win.close, resolve(key.trim())), 'api-key-cancel', or the window is closed
SetupDone(sub, pythonExists, cfg) ==
    /\ running
    /\ appPc = "setup"
    /\ setupWindow' = FALSE
    /\ keyFile' = saveApiKey(keyFile, sub)
    /\ IF ~falsy(showSetup(sub))
       THEN BeginStartup(showSetup(sub), pythonExists, cfg)
       ELSE /\ appPc' = "done"
            /\ AppQuit
            /\ UNCHANGED <<backendProcess, spawnCount, starts, probes, pending,
                           splashWindow, dialog, cfgWarned>>
    /\ UNCHANGED <<darwin, mainWindow, logOpened>>
    /\ UNCHANGED <<orchVars, storeVars>>

\* a checkHealth request of call c settles; waitForBackend returns true on
\* success, else sleeps 1000 ms; call 1 is the whenReady handler's call
ProbeResult(c, res) ==
    /\ running
    /\ c \in DOMAIN starts
    /\ starts[c].pc = "probing"
    /\ pending' = pending - 1
    /\ IF checkHealth(res)
       THEN /\ starts' = [starts EXCEPT ![c].pc = "true"]
            /\ IF c = 1
               THEN HandlerReady
               ELSE UNCHANGED <<appPc, splashWindow, mainWindow, running, procs,
                                sigterms, dialog, logOpened, quits>>
       ELSE /\ starts' = [starts EXCEPT ![c].pc = "sleeping"]
            /\ UNCHANGED <<appPc, splashWindow, mainWindow, running, procs,
                           sigterms, dialog, logOpened, quits>>
    /\ UNCHANGED <<darwin, backendProcess, spawnCount, probes, setupWindow>>
    /\ UNCHANGED <<cfgWarned, keyFile>>
    /\ UNCHANGED <<orchVars, storeVars>>

\* the 1000 ms sleep of call c ends: i++, the next checkHealth or return false;
\* on false the whenReady handler shows the startup-error dialog and quits
SleepDone(c, choice) ==
    /\ running
    /\ c \in DOMAIN starts
    /\ starts[c].pc = "sleeping"
    /\ IF starts[c].i + 1 < HealthAttempts
       THEN /\ choice = 0
            /\ starts' = [starts EXCEPT ![c].pc = "probing", ![c].i = @ + 1]
            /\ probes' = probes + 1
            /\ pending' = pending + 1
            /\ UNCHANGED <<appPc, running, procs, sigterms, splashWindow, dialog,
                           logOpened, quits, mainWindow>>
       ELSE /\ starts' = [starts EXCEPT ![c].pc = "false", ![c].i = @ + 1]
            /\ UNCHANGED <<probes, pending>>
            /\ IF c = 1
               THEN HandlerNotReady(choice)
               ELSE /\ choice = 0
                    /\ UNCHANGED <<appPc, running, procs, sigterms, splashWindow,
                                   dialog, logOpened, quits, mainWindow>>
    /\ UNCHANGED <<darwin, backendProcess, spawnCount, setupWindow>>
    /\ UNCHANGED <<cfgWarned, keyFile>>
    /\ UNCHANGED <<orchVars, storeVars>>

\* app.on('before-quit'): the operator quits; a window may veto the quit
BeforeQuit(exits) ==
    /\ running
    /\ quits < MaxQuits
    /\ procs' = stopProcs(procs, backendProcess)
    /\ sigterms' = sigterms + stopSignals(procs, backendProcess)
    /\ quits' = quits + 1
    /\ running' = ~exits
    /\ UNCHANGED <<appPc, darwin, backendProcess, spawnCount, starts, probes,
                   pending, mainWindow, splashWindow, setupWindow, dialog, logOpened>>
    /\ UNCHANGED <<cfgWarned, keyFile>>
    /\ UNCHANGED <<orchVars, storeVars>>

\* ProcExit with an exit handler that starts a replacement
ProcExit_Respawns(p) ==
    /\ p \in DOMAIN procs
    /\ procs[p].alive
    /\ Len(starts) < MaxStarts
    /\ procs' = Append([procs EXCEPT ![p].alive = FALSE],
                       [alive |-> TRUE, killed |-> FALSE, key |-> procs[p].key])
    /\ backendProcess' = Len(procs) + 1
    /\ spawnCount' = spawnCount + 1
    /\ starts' = Append(starts, [pc |-> "probing", i |-> 0])
    /\ probes' = probes + 1
    /\ pending' = pending + 1
    /\ UNCHANGED <<appPc, running, darwin, sigterms, mainWindow, splashWindow,
                   setupWindow, dialog, logOpened, quits>>
    /\ UNCHANGED <<cfgWarned, keyFile>>
    /\ UNCHANGED <<orchVars, storeVars>>

\* backendProcess.on('exit'): the process exits (crash, or after SIGTERM)
ProcExit(p) ==
    /\ p \in DOMAIN procs
    /\ procs[p].alive
    /\ procs' = [procs EXCEPT ![p].alive = FALSE]
    /\ UNCHANGED <<appPc, running, darwin, backendProcess, spawnCount, sigterms,
                   starts, probes, pending, mainWindow, splashWindow, setupWindow,
                   dialog, logOpened, quits>>
    /\ UNCHANGED <<cfgWarned, keyFile>>
    /\ UNCHANGED <<orchVars, storeVars>>

\* mainWindow.on('closed') and app.on('window-all-closed')
CloseMainWindow ==
    /\ running
    /\ mainWindow
    /\ mainWindow' = FALSE
    /\ IF darwin
       THEN UNCHANGED <<running, procs, sigterms, quits>>
       ELSE AppQuit
    /\ UNCHANGED <<appPc, darwin, backendProcess, spawnCount, starts, probes,
                   pending, splashWindow, setupWindow, dialog, logOpened>>
    /\ UNCHANGED <<cfgWarned, keyFile>>
    /\ UNCHANGED <<orchVars, storeVars>>

\* the operator closes the splash window (it is closable: Cmd+W, Alt+F4);
\* no 'closed' listener is attached to it, window-all-closed follows
CloseSplash ==
    /\ running
    /\ splashWindow
    /\ splashWindow' = FALSE
    /\ IF darwin
       THEN UNCHANGED <<running, procs, sigterms, quits>>
       ELSE AppQuit
    /\ UNCHANGED <<appPc, darwin, backendProcess, spawnCount, starts, probes,
                   pending, mainWindow, setupWindow, dialog, logOpened, cfgWarned,
                   keyFile>>
    /\ UNCHANGED <<orchVars, storeVars>>

\* app.on('activate')
Activate ==
    /\ running
    /\ appPc # "boot"
    /\ mainWindow' = IF ~mainWindow /\ ~splashWindow /\ ~setupWindow
                     THEN TRUE ELSE mainWindow
    /\ UNCHANGED <<appPc, running, darwin, backendProcess, procs, spawnCount,
                   sigterms, starts, probes, pending, splashWindow, setupWindow,
                   dialog, logOpened, quits>>
    /\ UNCHANGED <<cfgWarned, keyFile>>
    /\ UNCHANGED <<orchVars, storeVars>>

\* ipcMain.handle('reset-api-key'), invoked through preload.js by a window
\* that loads it: unlink KEY_FILE, app.relaunch(), app.exit(). app.exit()
\* closes every window and ends the process without emitting before-quit
ResetApiKey ==
    /\ running
    /\ mainWindow \/ setupWindow
    /\ running' = FALSE
    /\ mainWindow' = FALSE
    /\ splashWindow' = FALSE
    /\ setupWindow' = FALSE
    /\ keyFile' = "absent"
    /\ UNCHANGED <<appPc, darwin, backendProcess, procs, spawnCount, sigterms,
                   starts, probes, pending, dialog, logOpened, quits, cfgWarned>>
    /\ UNCHANGED <<orchVars, storeVars>>

\* a further call of startBackend while an earlier call is probing or ready
StartAgain(cfg) ==
    /\ running
    /\ Len(starts) >= 1
    /\ Len(starts) < MaxStarts
    /\ starts[1].pc \in {"probing", "sleeping", "true"}
    /\ Spawn(procs[1].key)
    /\ UNCHANGED keyFile
    /\ cfgWarned' = (cfgWarned \/ patchPyvenvCfg(cfg).warned)
    /\ UNCHANGED <<appPc, running, darwin, sigterms, mainWindow, splashWindow,
                   setupWindow, dialog, logOpened, quits>>
    /\ UNCHANGED <<orchVars, storeVars>>

SupNext ==
    \/ \E k \in EnvKeys, x \in BOOLEAN, cfg \in PatchOutcomes : WhenReady(k, x, cfg)
    \/ \E k \in SetupInputs, x \in BOOLEAN, cfg \in PatchOutcomes : SetupDone(k, x, cfg)
    \/ \E c \in 1..MaxStarts, res \in ProbeOutcomes : ProbeResult(c, res)
    \/ \E c \in 1..MaxStarts, choice \in {0, 1} : SleepDone(c, choice)
    \/ \E e \in BOOLEAN : BeforeQuit(e)
    \/ \E p \in 1..MaxStarts : ProcExit(p)
    \/ CloseMainWindow
    \/ CloseSplash
    \/ Activate
    \/ ResetApiKey

\* ======================================================= session store
\* useChatSessions on its own: the operations are called with ids drawn from
\* ArgIds, on a list loaded from storage

\* number of sessions found in storage at start
StoredAtStart == MAX_SESSIONS - 1

\* ids passed to the operations: the least recently updated stored session
\* and the session created by the first operation of this run
ArgIds == {1, StoredAtStart + 1}

\* a ChatSession
Session(id, title, at, msgs, settings, dl) ==
    [id |-> id, title |-> title, updatedAt |-> at, messages |-> msgs,
     settings |-> settings, lastDownloadId |-> dl]

\* Array.prototype.sort with (a, b) => b.updatedAt - a.updatedAt: descending
\* and stable (an element stays before the later elements it ties with)
RECURSIVE insertSorted(_, _)
insertSorted(x, t) ==
    IF t = <<>> THEN <<x>>
    ELSE IF Head(t).updatedAt <= x.updatedAt
    THEN <<x>> \o t
    ELSE <<Head(t)>> \o insertSorted(x, Tail(t))

RECURSIVE sortFrom(_, _)
sortFrom(ss, k) ==
    IF k > Len(ss) THEN <<>>
    ELSE insertSorted(ss[k], sortFrom(ss, k + 1))

sortByUpdatedAt(ss) == sortFrom(ss, 1)

\* .slice(0, n)
slice(ss, n) == SubSeq(ss, 1, IF Len(ss) < n THEN Len(ss) ELSE n)

\* the persistence effect without the sort: the first MAX_SESSIONS of the
\* list as it stands are written
persist_NoSort(ss, ok) ==
    /\ stSessions' = ss
    /\ stStored' = IF ok THEN slice(ss, MAX_SESSIONS) ELSE stStored

\* the persistence effect, run after every change of sessions: sort in
\* place, slice, setItem; ok is FALSE when setItem throws (storage full)
persist(ss, ok) ==
    /\ stSessions' = sortByUpdatedAt(ss)
    /\ stStored' = IF ok THEN slice(sortByUpdatedAt(ss), MAX_SESSIONS)
                   ELSE stStored

\* the ACTIVE_KEY effect, run when activeSessionId has changed: setItem of
\* the id, removeItem for null; okA is FALSE when the call throws
persistActive(id, okA) ==
    stActive' = IF okA /\ id # activeSessionId THEN id ELSE stActive

\* mapSession without the comparison of ids: f is applied to every session
mapSession_EverySession(ss, sid, changed) == changed

\* prev.map(s => s.id === sessionId ? f(s) : s), with changed[k] = f(ss[k])
mapSession(ss, sid, changed) ==
    [k \in 1..Len(ss) |-> IF ss[k].id = sid THEN changed[k] ELSE ss[k]]

\* what every store operation leaves alone
StoreFrame ==
    /\ stNow' = stNow + 1
    /\ stOps' = stOps + 1
    /\ UNCHANGED <<phase, previewData, abortRef, sessions, pendingClarify,
                   clarifyParams, turns, nTurns, infoFetch, switches>>
    /\ UNCHANGED supVars

\* useChatSessions.createSession
createSession(ok, okA) ==
    /\ stOps < MaxStoreOps
    /\ LET id == stNow + 1                   \* generateId: never used before
       IN  /\ persist(<<Session(id, "New Chat", stNow + 1, <<>>, "default", 0)>>
                        \o stSessions, ok)
           /\ activeSessionId' = id
           /\ persistActive(id, okA)
    /\ StoreFrame

\* useChatSessions.addMessage
stAddMessage(sid, role, ok) ==
    /\ stOps < MaxStoreOps
    /\ LET f(s) == [s EXCEPT !.messages = Append(@, role),
                             !.updatedAt = stNow + 1,
                             !.title = IF @ = "New Chat" /\ role = "user"
                                       THEN "prompt" ELSE @]
       IN  persist(mapSession(stSessions, sid,
                       [k \in 1..Len(stSessions) |-> f(stSessions[k])]), ok)
    /\ UNCHANGED <<activeSessionId, stActive>>
    /\ StoreFrame

\* stUpdateSession called with updates that carry a messages field
stUpdateSession_ReplacesMessages(sid, ok) ==
    /\ stOps < MaxStoreOps
    /\ LET f(s) == [s EXCEPT !.lastDownloadId = 1, !.updatedAt = stNow + 1,
                             !.messages = <<>>]
       IN  persist(mapSession(stSessions, sid,
                       [k \in 1..Len(stSessions) |-> f(stSessions[k])]), ok)
    /\ UNCHANGED <<activeSessionId, stActive>>
    /\ StoreFrame

\* useChatSessions.updateSession, called with {lastDownloadId, lastFilename}
stUpdateSession(sid, ok) ==
    /\ stOps < MaxStoreOps
    /\ LET f(s) == [s EXCEPT !.lastDownloadId = 1, !.updatedAt = stNow + 1]
       IN  persist(mapSession(stSessions, sid,
                       [k \in 1..Len(stSessions) |-> f(stSessions[k])]), ok)
    /\ UNCHANGED <<activeSessionId, stActive>>
    /\ StoreFrame

\* useChatSessions.updateSettings
updateSettings(sid, ok) ==
    /\ stOps < MaxStoreOps
    /\ LET f(s) == [s EXCEPT !.settings = "changed", !.updatedAt = stNow + 1]
       IN  persist(mapSession(stSessions, sid,
                       [k \in 1..Len(stSessions) |-> f(stSessions[k])]), ok)
    /\ UNCHANGED <<activeSessionId, stActive>>
    /\ StoreFrame

\* useChatSessions.renameSession
renameSession(sid, ok) ==
    /\ stOps < MaxStoreOps
    /\ LET f(s) == [s EXCEPT !.title = "renamed", !.updatedAt = stNow + 1]
       IN  persist(mapSession(stSessions, sid,
                       [k \in 1..Len(stSessions) |-> f(stSessions[k])]), ok)
    /\ UNCHANGED <<activeSessionId, stActive>>
    /\ StoreFrame

\* useChatSessions.deleteSession
deleteSession(sid, ok, okA) ==
    /\ stOps < MaxStoreOps
    /\ persist(SelectSeq(stSessions, LAMBDA s : s.id # sid), ok)
    /\ activeSessionId' = IF activeSessionId = sid THEN null ELSE activeSessionId
    /\ persistActive(activeSessionId', okA)
    /\ StoreFrame

\* the page is loaded again: useState(loadSessions), useState(loadActiveId),
\* then the effects of the first render, the two persistence effects and
\* the auto-create effect of ChatLayout
Reload(ok, okA) ==
    /\ stOps < MaxStoreOps
    /\ IF stStored = <<>>
       THEN LET id == stNow + 1
            IN  /\ persist(<<Session(id, "New Chat", stNow + 1, <<>>,
                                     "default", 0)>>, ok)
                /\ activeSessionId' = id
       ELSE /\ persist(stStored, ok)
            /\ activeSessionId' = IF stActive = null THEN stStored[1].id
                                  ELSE stActive
    /\ stActive' = IF okA THEN activeSessionId' ELSE stActive
    /\ StoreFrame

\* one store operation; ok and okA tell whether the localStorage calls of
\* the two persistence effects succeeded
StoreStep(ok) ==
    \/ \E okA \in BOOLEAN : createSession(ok, okA)
    \/ \E sid \in ArgIds : stAddMessage(sid, "user", ok)
    \/ \E sid \in ArgIds : stUpdateSession(sid, ok)
    \/ \E sid \in ArgIds : updateSettings(sid, ok)
    \/ \E sid \in ArgIds : renameSession(sid, ok)
    \/ \E sid \in ArgIds, okA \in BOOLEAN : deleteSession(sid, ok, okA)

StoreNext == \E ok \in BOOLEAN : StoreStep(ok)

\* loadSessions with StoredAtStart sessions in storage, as the persistence
\* effect wrote them: most recently updated first
StoreLoaded ==
    /\ stStored = [k \in 1..StoredAtStart |->
                     Session(StoredAtStart + 1 - k, "prompt",
                             StoredAtStart + 1 - k, <<"user", "assistant">>,
                             "default", 0)]
    /\ stSessions = stStored
    /\ stActive = 1
    /\ stNow = StoredAtStart
    /\ stOps = 0

\* loadSessions on a first run: nothing is stored
StoreEmpty ==
    /\ stSessions = <<>>
    /\ stStored = <<>>
    /\ stActive = null
    /\ stNow = 0
    /\ stOps = 0

\* ------------------------------------------------------- specifications
\* the orchestrator, with the backend up and the main window loaded
Init == OrchInit /\ SupReady /\ StoreEmpty

Next == OrchNext

Spec == Init /\ [][Next]_vars

\* the orchestrator with the requests that carry a timeout option settling:
\* the POSTs of clarify, generate and iterate reject at the latest when their
\* timeout expires, and the continuation of an aborted request runs; the GET
\* of the preview info has no timeout option and the operator owes no action
LiveSpec ==
    /\ Init
    /\ [][Next]_vars
    /\ \A t \in TurnIds :
          /\ WF_vars(\E out \in ClarifyOutcomes : ClarifyReply(t, out))
          /\ WF_vars(\E out \in GenerateOutcomes, h \in HistoryLengths :
                        GenerateReply(t, out, h))
          /\ WF_vars(SettleAborted(t))

\* the orchestrator with the operator switching between sessions
SessSpec == Init /\ [][SessNext]_vars

\* the orchestrator with session switches and MaxSessTurns prompts, started
\* with a second session that was loaded from storage with the messages and
\* the download info of a presentation made in an earlier run; its download
\* id is none of those the prompts of this run receive
StoredDl == MaxTurns

StoredMessages ==
    <<Msg("user", "prompt", 0, 0, 0, 0),
      Msg("preview", "ready", 0, 0, StoredDl, SlideCount)>>

SwitchInit ==
    /\ phase = "idle"
    /\ previewData = NoPreview
    /\ abortRef = null
    /\ sessions = [s \in SessionIds |->
                     IF s = 1
                     THEN [messages |-> <<>>, lastDownloadId |-> 0,
                           lastFilename |-> 0]
                     ELSE [messages |-> StoredMessages,
                           lastDownloadId |-> StoredDl,
                           lastFilename |-> FilenameOf(StoredDl)]]
    /\ activeSessionId = 1
    /\ pendingClarify = FALSE
    /\ clarifyParams = 0
    /\ turns = [t \in TurnIds |-> NoTurn]
    /\ nTurns = 0
    /\ infoFetch = [d \in DlIds |-> 0]
    /\ switches = 0
    /\ SupReady
    /\ StoreEmpty

SwitchNext ==
    \/ nTurns < MaxSessTurns /\ HandleGenerate
    \/ nTurns < MaxSessTurns /\ HandleChatSend
    \/ Cancel
    \/ \E t \in TurnIds, out \in ClarifyOutcomes : ClarifyReply(t, out)
    \/ \E t \in TurnIds, out \in GenerateOutcomes, h \in HistoryLengths :
          GenerateReply(t, out, h)
    \/ \E t \in TurnIds, out \in PreviewOutcomes : PreviewReply(t, out)
    \/ \E t \in TurnIds : SettleAborted(t)
    \/ \E id \in SessionIds : switches < MaxSessSwitch /\ SelectSession(id)
    \/ \E d \in DlIds, out \in InfoOutcomes : InfoFetchReply(d, out)

SwitchSpec == SwitchInit /\ [][SwitchNext]_vars

\* the same with the operator switching back: a session is selected and
\* left again while the fetch of its preview-load effect is in flight
SwitchBackNext ==
    \/ SwitchNext
    \/ \E id \in SessionIds : SelectSession(id)

SwitchBackSpec == SwitchInit /\ [][SwitchBackNext]_vars

\* the session store on its own, loaded from storage
StoreSpecInit == OrchInit /\ SupReady /\ StoreLoaded

StoreSpec == StoreSpecInit /\ [][StoreNext]_vars

\* the session store over several page loads
ReloadNext ==
    \/ StoreNext
    \/ \E ok \in BOOLEAN, okA \in BOOLEAN : Reload(ok, okA)

ReloadSpec == StoreSpecInit /\ [][ReloadNext]_vars

\* the supervisor, from application start
SupSpecInit == OrchInit /\ SupInit /\ StoreEmpty

SupSpec == SupSpecInit /\ [][SupNext]_vars

\* startBackend under repeated calls: the startup steps of the supervisor,
\* without the window and quit events
StartSeqNext ==
    \/ \E k \in EnvKeys, x \in BOOLEAN, cfg \in PatchOutcomes : WhenReady(k, x, cfg)
    \/ \E k \in SetupInputs, x \in BOOLEAN, cfg \in PatchOutcomes : SetupDone(k, x, cfg)
    \/ \E c \in 1..MaxStarts, res \in ProbeOutcomes : ProbeResult(c, res)
    \/ \E c \in 1..MaxStarts, choice \in {0, 1} : SleepDone(c, choice)
    \/ \E p \in 1..MaxStarts : ProcExit(p)
    \/ \E cfg \in PatchOutcomes : StartAgain(cfg)

StartSeqSpec == SupSpecInit /\ [][StartSeqNext]_vars

\* ================================================================ claims
\* lastArtifactRef of a session record
LastRef(rec) == <<rec.lastDownloadId, rec.lastFilename>>

\* turn t produced an error message
HasError(t) ==
    \E s \in SessionIds : \E k \in 1..Len(sessions[s].messages) :
        /\ sessions[s].messages[k].turn = t
        /\ sessions[s].messages[k].role = "assistant"
        /\ sessions[s].messages[k].content \in {"detail", "timeout", "failed"}

\* the questions of turn t were appended to a session
HasQuestions(t) ==
    \E s \in SessionIds : \E k \in 1..Len(sessions[s].messages) :
        /\ sessions[s].messages[k].turn = t
        /\ sessions[s].messages[k].role = "assistant"
        /\ sessions[s].messages[k].content = "questions"

\* the positions in session s of the preview messages of turn t
PreviewsOf(s, t) ==
    {k \in 1..Len(sessions[s].messages) :
        /\ sessions[s].messages[k].role = "preview"
        /\ sessions[s].messages[k].turn = t}

\* sequence a is a prefix of sequence b
IsPrefix(a, b) == Len(a) <= Len(b) /\ SubSeq(b, 1, Len(a)) = a

\* C1: cancel() that aborts a generate()/iterate() call awaiting its reply
\* makes the phase Idle, and the step in which the aborted call settles
\* appends no message and leaves phase, previewData and every session's
\* lastDownloadId/lastFilename as they were.
C1_AbortedGenerateSettlesSilently ==
    [][\A t \in TurnIds :
         /\ (turns[t].pc = "gen_wait" /\ turns'[t].pc = "gen_aborted")
               => phase' = "idle"
         /\ (turns[t].pc = "gen_aborted" /\ turns'[t].pc # "gen_aborted")
               => /\ sessions' = sessions
                  /\ phase' = phase
                  /\ phase = "idle"
                  /\ previewData' = previewData]_vars

\* a generate call was aborted while awaiting its reply and has settled
C1_Witness ==
    \E t \in TurnIds :
        /\ turns[t].pc = "finished"
        /\ turns[t].kind \in {"generate", "iterate"}
        /\ turns[t].dl = 0
        /\ ~HasError(t)
        /\ phase = "idle"

\* C2: the step in which a call cancelled in phase Converting settles
\* appends no message, leaves lastDownloadId/lastFilename alone and
\* leaves the phase Idle (in particular it does not become Done).
C2_CancelledConvertingSilent ==
    [][\A t \in TurnIds :
         (turns[t].pc = "conv_aborted" /\ turns'[t].pc # "conv_aborted")
            => /\ sessions' = sessions
               /\ phase' = "idle"]_vars

\* C3: a clarify call in flight while the phase is Idle has been cancelled;
\* when it settles no message is appended and generate() is not invoked
\* (the phase stays Idle, the frame ends).
C3_CancelledClarifyDiscarded ==
    [][\A t \in TurnIds :
         (phase = "idle" /\ turns[t].pc = "clarify_wait"
                         /\ turns'[t].pc # "clarify_wait")
            => /\ sessions' = sessions
               /\ phase' = "idle"
               /\ turns'[t].pc = "finished"]_vars

\* C4: whatever calls of start are made while an earlier call is probing
\* or ready, at most one backend process is spawned.
C4_AtMostOneSpawn == spawnCount <= 1

\* C5: once waitForBackend has returned false (60 probes, none 200) the
\* handler has shown the startup-error dialog and quit, no main window
\* exists, and afterwards nothing is probed or spawned and the state never
\* becomes Ready.
C5_TimeoutIsFailed ==
    /\ [](Len(starts) >= 1 /\ starts[1].pc = "false"
            => /\ appPc = "done"
               /\ ~running
               /\ ~mainWindow
               /\ dialog = "startup_error"
               /\ probes = HealthAttempts
               /\ pending = 0
               /\ spawnCount = 1)
    /\ [][Len(starts) >= 1 /\ starts[1].pc = "false"
            => /\ starts' = starts
               /\ probes' = probes
               /\ spawnCount' = spawnCount
               /\ appPc' = appPc
               /\ mainWindow' = mainWindow]_vars

\* C6: at most one probe is outstanding and at most 60 are issued; a probe
\* makes the call resolve true exactly when its result is HTTP 200; once
\* probe k succeeded, k probes were issued, none is outstanding, one
\* process was spawned, and no further probe or spawn follows.
C6_FirstSuccessIsReady ==
    /\ [](/\ pending <= 1
          /\ probes <= HealthAttempts
          /\ (Len(starts) >= 1 /\ starts[1].pc = "true"
                 => /\ probes = starts[1].i + 1
                    /\ probes >= 1
                    /\ pending = 0
                    /\ spawnCount = 1))
    /\ [][/\ \A res \in ProbeOutcomes :
               ProbeResult(1, res) => (starts'[1].pc = "true" <=> res = "200")
          /\ (Len(starts) >= 1 /\ starts[1].pc = "true")
               => (probes' = probes /\ spawnCount' = spawnCount
                                    /\ starts' = starts)]_vars

\* the probe of attempt 37 succeeded
C6_Witness ==
    /\ Len(starts) >= 1
    /\ starts[1].pc = "true"
    /\ starts[1].i = 36
    /\ probes = 37
    /\ appPc = "ready"

\* C7: SIGTERM is delivered at most once; a before-quit event with no
\* process spawned, or with a process already signalled, changes neither
\* the processes nor the number of signals.
C7_StopIdempotent ==
    /\ [](sigterms <= 1)
    /\ [][quits' # quits /\ (backendProcess = null \/ procs[backendProcess].killed)
            => (procs' = procs /\ sigterms' = sigterms)]_vars

\* stop() ran twice on a spawned process: one signal
C7_Witness ==
    /\ quits = 2
    /\ sigterms = 1
    /\ backendProcess # null
    /\ procs[backendProcess].alive

\* C8: a session's lastDownloadId/lastFilename change only in the step in
\* which a generate/iterate call of that session that was not cancelled
\* reaches Done, and every call reaching Done sets them to its own
\* download id and filename; a call that ends in Error or was cancelled
\* leaves them alone.
C8_ArtifactRefIffDone ==
    [][(\A s \in SessionIds :
            LastRef(sessions'[s]) # LastRef(sessions[s])
              => (\E u \in TurnIds :
                    /\ turns[u].sid = s
                    /\ turns[u].pc = "conv_wait"
                    /\ turns'[u].pc = "finished"
                    /\ phase' = "done"))
       /\ (\A t \in TurnIds :
            /\ (turns[t].pc = "conv_wait" /\ turns'[t].pc = "finished")
                 => (/\ phase' = "done"
                     /\ LastRef(sessions'[turns[t].sid])
                          = <<turns[t].dl, FilenameOf(turns[t].dl)>>)
            /\ (turns[t].pc \in {"gen_wait", "gen_aborted", "conv_aborted"}
                   /\ turns'[t].pc = "finished")
                 => (LastRef(sessions'[turns[t].sid])
                      = LastRef(sessions[turns[t].sid])))]_vars

\* C9: abortRef is non-null exactly when the phase is Clarifying,
\* Generating or Converting.
C9_HandleIffBusy == (abortRef # null) <=> (phase \in Busy)

\* C10: with the UI gating, at most one network operation of a session is
\* in flight.
C10_SingleFlight ==
    \A s \in SessionIds :
        Cardinality({t \in InFlight : turns[t].sid = s}) <= 1

\* C11: a generate()/iterate() call that settles changes the cancellation
\* handle only when the handle is its own, so it never clears the handle of
\* another operation of the same session, and cancel() aborts every
\* generate()/iterate() call that is awaiting a reply.
C11_HandleScopedToOperation ==
    [][/\ \A t \in TurnIds :
            (/\ turns[t].pc \in {"gen_wait", "conv_wait", "gen_aborted", "conv_aborted"}
             /\ turns'[t].pc = "finished"
             /\ abortRef # null
             /\ abortRef # t
             /\ turns[abortRef].sid = turns[t].sid)
               => abortRef' = abortRef
       /\ Cancel => \A t \in TurnIds :
                       turns[t].pc \in {"gen_wait", "conv_wait"}
                         => turns'[t].pc \in Aborted]_vars

\* C12: cancel() makes the phase Idle in the same step and appends exactly
\* one System message, to the session on which the operation in flight was
\* started, and changes no other session.
C12_CancelMessageOnOwnSession ==
    [][Cancel => /\ phase' = "idle"
                 /\ \A t \in InFlight :
                       sessions' = addMessage(sessions, turns[t].sid,
                                      Msg("system", "cancelled", 0, 0, 0, 0))]_vars

\* C13: when two sessions each have a generate() call in flight, cancelling
\* one of them leaves the other call in flight, leaves the other session's
\* phase and messages as they were, and the other call's result is applied
\* to its own session.
C13_SessionsIndependent ==
    [][\A a \in TurnIds : \A b \in TurnIds :
         (/\ turns[a].sid # turns[b].sid
          /\ turns[a].kind = "generate"
          /\ turns[b].kind = "generate"
          /\ turns[a].pc \in {"gen_wait", "conv_wait"}
          /\ turns[b].pc \in {"gen_wait", "conv_wait"})
           => /\ turns'[a].pc \in Aborted
                   => /\ turns'[b].pc = turns[b].pc
                      /\ sessions'[turns[b].sid] = sessions[turns[b].sid]
                      /\ phase' = phase
              /\ (turns[b].pc = "conv_wait" /\ turns'[b].pc = "finished")
                   => LastRef(sessions'[turns[b].sid])
                        = <<turns[b].dl, FilenameOf(turns[b].dl)>>]_vars

\* C14: after every selection of a session the phase is Idle.
C14_SwitchShowsIdle ==
    [][\A id \in SessionIds : SelectSession(id) => phase' = "idle"]_vars

\* C15: the step in which clarify() settles leaves the phase different from
\* Clarifying; when it settles with questions the phase is Idle and exactly
\* one Assistant message carrying the questions is appended.
C15_ClarifyLeavesClarifying ==
    [][\A t \in TurnIds :
         (turns[t].pc = "clarify_wait" /\ turns'[t].pc # "clarify_wait")
           => /\ phase' # "clarifying"
              /\ turns'[t].pc = "finished"
                   => /\ phase' = "idle"
                      /\ sessions' = addMessage(sessions, turns[t].sid,
                                        Msg("assistant", "questions", t, 0, 0, 0))]_vars

C17_ClarifyBeforeGenerate ==
    [][\A t \in TurnIds :
         (/\ turns[t].pc # "gen_wait"
          /\ turns'[t].pc = "gen_wait"
          /\ turns'[t].kind = "generate"
          /\ turns'[t].clar = 0)
           => turns[t].pc = "clarify_wait"]_vars

\* C18: a clarify() reply with needs_clarification false, a reply with an
\* empty question list and a failed or timed-out clarify() lead to the same
\* step: clarify appends no message, and generate() is called at once with
\* the parameters of the turn and no clarifications, its progress message
\* being the only message appended.
C18_NoQuestionsLikeFailure ==
    [][\A t \in TurnIds :
         (ClarifyReply(t, "none") \/ ClarifyReply(t, "empty") \/ ClarifyReply(t, "fail"))
           => /\ ClarifyReply(t, "none")
              /\ ClarifyReply(t, "empty")
              /\ ClarifyReply(t, "fail")
              /\ turns'[t] = [turns[t] EXCEPT !.pc = "gen_wait", !.kind = "generate"]
              /\ turns'[t].clar = 0
              /\ sessions' = addMessage(sessions, turns[t].sid,
                                Msg("assistant", "generating", t, 0, 0, 0))]_vars

\* a workspace prompt went through clarify() without questions and is in
\* its generate() call
C18_Witness ==
    \E t \in TurnIds :
        /\ turns[t].entry = "workspace"
        /\ turns[t].pc = "gen_wait"
        /\ turns[t].clar = 0
        /\ ~HasQuestions(t)

\* C19: a generate() call awaiting its reply in phase Generating that fails
\* with a network error or a timeout makes the phase Error, appends exactly
\* one Assistant message naming the cause (the timeout text for a timeout)
\* and leaves every session's lastDownloadId/lastFilename alone; in phase
\* Error both entry points accept the next prompt.
C19_GenerateFailureRecoverable ==
    /\ [][\A t \in TurnIds : \A out \in {"network", "timeout"} :
            (/\ turns[t].kind = "generate"
             /\ phase = "generating"
             /\ GenerateReply(t, out, 0))
              => /\ phase' = "error"
                 /\ sessions' = addMessage(sessions, turns[t].sid,
                       Msg("assistant",
                           IF out = "timeout" THEN "timeout" ELSE "failed",
                           t, 0, 0, 0))
                 /\ \A s \in SessionIds :
                       LastRef(sessions'[s]) = LastRef(sessions[s])]_vars
    /\ []((phase = "error" /\ Quiescent /\ nTurns < MaxTurns)
            => (ENABLED HandleGenerate /\ ENABLED HandleChatSend))

\* a generate() call timed out and left the phase Error, and a later turn of
\* the same session went on to Done
C19_Witness ==
    \E t \in TurnIds : \E u \in TurnIds :
        /\ t < u
        /\ turns[t].kind = "generate"
        /\ turns[t].pc = "finished"
        /\ \E k \in 1..Len(sessions[turns[t].sid].messages) :
              /\ sessions[turns[t].sid].messages[k].turn = t
              /\ sessions[turns[t].sid].messages[k].content = "timeout"
        /\ turns[u].sid = turns[t].sid
        /\ turns[u].pc = "finished"
        /\ turns[u].dl # 0
        /\ phase = "done"

\* C20: when the metadata fetch of a call in phase Converting fails, the
\* call still completes: the phase becomes Done, the only message appended
\* is a preview message with slide count 0, the session's
\* lastDownloadId/lastFilename name the new artifact, and the turn has no
\* error message.
C20_MetadataFailureNonFatal ==
    [][\A t \in TurnIds :
         (phase = "converting" /\ PreviewReply(t, "fail"))
           => /\ phase' = "done"
              /\ turns'[t].pc = "finished"
              /\ sessions'[turns[t].sid].messages
                   = Append(sessions[turns[t].sid].messages,
                            Msg("preview", "ready", t, 0, turns[t].dl, 0))
              /\ LastRef(sessions'[turns[t].sid])
                   = <<turns[t].dl, FilenameOf(turns[t].dl)>>
              /\ turns[t].dl # 0
              /\ previewData'.totalSlides = 0
              /\ ~HasError(t)']_vars

\* a call completed with a preview of 0 slides and was never cancelled
C20_Witness ==
    \E t \in TurnIds :
        LET ms == sessions[turns[t].sid].messages
        IN  /\ turns[t].pc = "finished"
            /\ phase = "done"
            /\ sessions[turns[t].sid].lastDownloadId = turns[t].dl
            /\ turns[t].dl # 0
            /\ \E k \in 1..Len(ms) :
                  /\ ms[k].role = "preview"
                  /\ ms[k].turn = t
                  /\ ms[k].slides = 0
            /\ \A k \in 1..Len(ms) : ms[k].role # "system"

\* C21: a generate() call sets the phase Generating when it starts,
\* Converting when the POST succeeds and Done when the metadata fetch
\* replies; that last step appends one preview message carrying the slide
\* count of the reply and stores the returned download id and filename on
\* the session; no turn ever has more than one preview message.
C21_SuccessfulGeneratePhases ==
    /\ [][\A t \in TurnIds :
            /\ (/\ turns[t].pc # "gen_wait"
                /\ turns'[t].pc = "gen_wait"
                /\ turns'[t].kind = "generate")
                 => phase' = "generating"
            /\ (/\ turns[t].kind = "generate"
                /\ turns[t].pc = "gen_wait"
                /\ turns'[t].pc = "conv_wait")
                 => /\ phase' = "converting"
                    /\ turns'[t].dl # 0
                    /\ PreviewsOf(turns[t].sid, t)' = {}
            /\ \A out \in {"slides", "zero"} :
                 (turns[t].kind = "generate" /\ PreviewReply(t, out))
                   => /\ phase' = "done"
                      /\ sessions'[turns[t].sid].messages
                           = Append(sessions[turns[t].sid].messages,
                                    Msg("preview", "ready", t, 0, turns[t].dl,
                                        IF out = "slides" THEN SlideCount ELSE 0))
                      /\ LastRef(sessions'[turns[t].sid])
                           = <<turns[t].dl, FilenameOf(turns[t].dl)>>]_vars
    /\ [](\A s \in SessionIds : \A t \in TurnIds :
             Cardinality(PreviewsOf(s, t)) <= 1)

\* a generate() call completed with the slide count of the metadata reply
C21_Witness ==
    \E t \in TurnIds :
        /\ turns[t].kind = "generate"
        /\ turns[t].pc = "finished"
        /\ phase = "done"
        /\ LastRef(sessions[turns[t].sid]) = <<turns[t].dl, FilenameOf(turns[t].dl)>>
        /\ \E k \in PreviewsOf(turns[t].sid, t) :
              sessions[turns[t].sid].messages[k].slides = SlideCount
        /\ \A k \in 1..Len(sessions[turns[t].sid].messages) :
              sessions[turns[t].sid].messages[k].role # "system"

\* C22: in every session the messages of a turn are in causal order: the
\* user's message comes before every other message of the turn, the
\* thinking messages are in the order of the quality report, and every
\* thinking message comes before the preview message of the turn.
C22_CausalMessageOrder ==
    \A s \in SessionIds : \A t \in TurnIds :
        LET ms == sessions[s].messages
            Of == {k \in 1..Len(ms) : ms[k].turn = t}
        IN  /\ \A k \in Of :
                 ms[k].role # "user"
                   => \E j \in Of : j < k /\ ms[j].role = "user"
            /\ \A j \in Of : \A k \in Of :
                 (j < k /\ ms[j].role = "thinking" /\ ms[k].role = "thinking")
                   => ms[j].idx < ms[k].idx
            /\ \A j \in Of : \A k \in Of :
                 (ms[j].role = "thinking" /\ ms[k].role = "preview") => j < k

\* a turn has its user message, two thinking messages and its preview
C22_Witness ==
    \E s \in SessionIds : \E t \in TurnIds :
        LET ms == sessions[s].messages
            Of == {k \in 1..Len(ms) : ms[k].turn = t}
        IN  /\ \E k \in Of : ms[k].role = "user"
            /\ Cardinality({k \in Of : ms[k].role = "thinking"}) >= 2
            /\ \E k \in Of : ms[k].role = "preview"

\* C23: every clarify, generate/iterate and metadata fetch that is awaiting
\* its reply eventually stops awaiting it, and whenever the phase is
\* Clarifying, Generating or Converting it eventually is none of them.
C23_EveryOperationSettles ==
    /\ \A t \in TurnIds :
          (turns[t].pc \in {"clarify_wait", "gen_wait", "conv_wait"})
             ~> (turns[t].pc \notin {"clarify_wait", "gen_wait", "conv_wait"})
    /\ (phase \in Busy) ~> (phase \notin Busy)

\* C24: the stored list never holds more than MAX_SESSIONS sessions, and
\* after every store operation whose write succeeds it holds exactly the
\* sessions of the list in memory that fewer than MAX_SESSIONS others
\* exceed in updatedAt, each as it is in memory.
C24_RetainsMostRecent ==
    /\ [](Len(stStored) <= MAX_SESSIONS)
    /\ [][StoreStep(TRUE)
            => LET mem  == stSessions'
                   kept == {k \in 1..Len(mem) :
                              Cardinality({j \in 1..Len(mem) :
                                  mem[j].updatedAt > mem[k].updatedAt})
                                < MAX_SESSIONS}
               IN  /\ {stStored'[k] : k \in 1..Len(stStored')}
                        = {mem[k] : k \in kept}
                   /\ Len(stStored') = Cardinality(kept)]_vars

\* more than MAX_SESSIONS sessions are in memory; the stored list is full,
\* holds the oldest session (it was updated in this run) and has lost the
\* second oldest
C24_Witness ==
    /\ Len(stSessions) > MAX_SESSIONS
    /\ Len(stStored) = MAX_SESSIONS
    /\ \E k \in 1..Len(stStored) : stStored[k].id = 1
    /\ \A k \in 1..Len(stStored) : stStored[k].id # 2
    /\ \E k \in 1..Len(stSessions) : stSessions[k].id = 2

C26_MissingExecutableFailsFast ==
    /\ [][(\E cfg \in PatchOutcomes :
               \/ \E k \in EnvKeys :
                     ~falsy(loadApiKey(keyFile, k)) /\ WhenReady(k, FALSE, cfg)
               \/ \E sub \in SetupInputs :
                     ~falsy(showSetup(sub)) /\ SetupDone(sub, FALSE, cfg))
            => /\ spawnCount' = 0
               /\ procs' = <<>>
               /\ backendProcess' = null
               /\ probes' = 0
               /\ dialog' = "fatal"
               /\ ~splashWindow'
               /\ ~mainWindow'
               /\ ~running']_vars
    /\ [](dialog = "fatal"
            => /\ spawnCount = 0
               /\ probes = 0
               /\ ~mainWindow
               /\ ~running)

\* the application has quit on the fatal-error box, nothing spawned
C26_Witness ==
    /\ dialog = "fatal"
    /\ appPc = "done"
    /\ ~running
    /\ quits = 1
    /\ spawnCount = 0

\* C27: the step in which a backend process exits spawns nothing, issues
\* no probe and leaves backendProcess, the windows and the handler where
\* they were; the application never spawns more than one process.
C27_NoRestartAfterExit ==
    /\ [][\A p \in 1..MaxStarts :
            ProcExit(p)
              => /\ spawnCount' = spawnCount
                 /\ Len(procs') = Len(procs)
                 /\ backendProcess' = backendProcess
                 /\ probes' = probes
                 /\ starts' = starts
                 /\ appPc' = appPc
                 /\ mainWindow' = mainWindow]_vars
    /\ [](spawnCount <= 1 /\ Len(procs) = spawnCount)

\* the backend crashed (no SIGTERM was sent) after the main window opened
\* and the application is still running
C27_Witness ==
    /\ appPc = "ready"
    /\ running
    /\ mainWindow
    /\ spawnCount = 1
    /\ ~procs[1].alive
    /\ ~procs[1].killed


\* a step of the whenReady handler that calls startBackend with a key, the
\* executable present and pyvenv.cfg outcome cfg
StartsBackend(cfg) ==
    \/ \E k \in EnvKeys :
          ~falsy(loadApiKey(keyFile, k)) /\ WhenReady(k, TRUE, cfg)
    \/ \E sub \in SetupInputs :
          ~falsy(showSetup(sub)) /\ SetupDone(sub, TRUE, cfg)

\* C28: when reading or writing pyvenv.cfg fails, the step that calls
\* startBackend logs the warning, spawns the process and issues the first
\* health probe just as a step whose patch succeeded does, shows no dialog
\* and leaves the application running; a logged warning is never followed
\* by the fatal-error box, and is always accompanied by a spawn.
C28_PatchFailureTolerated ==
    /\ [][StartsBackend("failed")
            => /\ cfgWarned'
               /\ Len(procs') = Len(procs) + 1
               /\ procs'[Len(procs')].alive
               /\ backendProcess' = Len(procs')
               /\ spawnCount' = spawnCount + 1
               /\ probes' = probes + 1
               /\ pending' = pending + 1
               /\ appPc' = "starting"
               /\ splashWindow'
               /\ dialog' = dialog
               /\ running'
               /\ quits' = quits]_vars
    /\ [][\A cfg \in {"current", "patched"} :
            StartsBackend(cfg)
            => /\ cfgWarned' = cfgWarned
               /\ Len(procs') = Len(procs) + 1
               /\ procs'[Len(procs')].alive
               /\ backendProcess' = Len(procs')
               /\ spawnCount' = spawnCount + 1
               /\ probes' = probes + 1
               /\ pending' = pending + 1
               /\ appPc' = "starting"
               /\ splashWindow'
               /\ dialog' = dialog
               /\ running'
               /\ quits' = quits]_vars
    /\ [](cfgWarned => spawnCount >= 1 /\ dialog # "fatal")

\* the patch failed, the warning was logged, and the backend still became
\* Ready and the main window opened
C28_Witness ==
    /\ cfgWarned
    /\ appPc = "ready"
    /\ mainWindow
    /\ spawnCount = 1
    /\ procs[1].alive



\* C29: no call of clarify(), generate() or iterate() ends as a rejected
\* promise; a failed or malformed clarify reply lets the handler go on to
\* generate, a failed or malformed generate/iterate reply sets the phase to
\* error, appends one assistant message to the session of the turn and ends
\* the call, a failed or malformed metadata reply ends the call in done, an
\* aborted call ends; and none of these steps changes the record of a
\* session other than the one the turn was started on.
C29_NeverRejects ==
    /\ [](\A t \in TurnIds : turns[t].pc # "rejected")
    /\ [][\A t \in TurnIds :
            LET sid == turns[t].sid
                own == sessions[sid].messages
            IN  /\ \A out \in {"fail", "malformed"} :
                      ClarifyReply(t, out)
                        => /\ phase' = "generating"
                           /\ turns'[t].pc = "gen_wait"
                /\ \A out \in GenerateOutcomes \ {"ok"} :
                      GenerateReply(t, out, 0)
                        => /\ phase' = "error"
                           /\ sessions'[sid].messages =
                                 Append(own, Msg("assistant",
                                     ErrorDetail(turns[t].kind, out), t, 0, 0, 0))
                           /\ turns'[t].pc = "finished"
                /\ \A out \in {"fail", "malformed"} :
                      PreviewReply(t, out)
                        => /\ phase' = "done"
                           /\ turns'[t].pc = "finished"
                /\ SettleAborted(t) => turns'[t].pc = "finished"
                /\ (\/ \E out \in ClarifyOutcomes : ClarifyReply(t, out)
                    \/ \E out \in GenerateOutcomes, h \in HistoryLengths :
                          GenerateReply(t, out, h)
                    \/ \E out \in PreviewOutcomes : PreviewReply(t, out)
                    \/ SettleAborted(t))
                      => \A s \in SessionIds \ {sid} : sessions'[s] = sessions[s]]_vars

\* a generate started on session 1 has failed on a malformed body, session
\* 2 is shown and still holds exactly the messages it was loaded with
C29_Witness ==
    /\ activeSessionId = 2
    /\ turns[1].sid = 1
    /\ turns[1].pc = "finished"
    /\ phase = "error"
    /\ Len(sessions[1].messages) >= 2
    /\ sessions[1].messages[Len(sessions[1].messages)].content = "failed"
    /\ sessions[2].messages = StoredMessages

\* C30: once the application has exited, every backend process that is
\* still running has been sent SIGTERM.
C30_BackendNeverOutlivesApp ==
    ~running => \A p \in DOMAIN procs : procs[p].alive => procs[p].killed


\* C31: in every state in which the main window exists, the first call of
\* startBackend has resolved true (a health probe returned 200).
C31_MainWindowOnlyAfterReady ==
    mainWindow => Len(starts) >= 1 /\ starts[1].pc = "true"


\* C32: a call of startBackend resolves true only in a step in which the
\* process it spawned is alive.
C32_ReadyImpliesOwnProcessAlive ==
    [][\A c \in 1..MaxStarts :
         ProbeResult(c, "200")
           => /\ backendProcess # null
              /\ procs[backendProcess].alive]_vars


\* C33: every spawned process was given a non-empty key; when the setup
\* window is cancelled, closed or submitted blank, the application quits in
\* that step with nothing spawned and nothing probed; when a key is
\* submitted, the key file holds the trimmed text and, the executable being
\* there, the process is spawned with exactly the trimmed text.
C33_SpawnOnlyWithKey ==
    /\ [](\A p \in DOMAIN procs : procs[p].key \notin {"null", "", "  "})
    /\ [][\A sub \in SetupInputs, x \in BOOLEAN, cfg \in PatchOutcomes :
            SetupDone(sub, x, cfg)
              => IF sub \in {"cancel", "closed", "  "}
                 THEN /\ ~running'
                      /\ appPc' = "done"
                      /\ spawnCount' = 0
                      /\ probes' = 0
                      /\ procs' = <<>>
                      /\ (sub \in {"cancel", "closed"} => keyFile' = keyFile)
                 ELSE /\ keyFile' = "k2"
                      /\ (x => /\ spawnCount' = 1
                               /\ procs'[1].key = "k2"
                               /\ probes' = 1)]_vars

\* the operator typed the key with surrounding blanks into the setup window:
\* the file holds the trimmed key and the backend, started with it, is Ready
C33_Witness ==
    /\ appPc = "ready"
    /\ keyFile = "k2"
    /\ spawnCount = 1
    /\ procs[1].key = "k2"
    /\ mainWindow


\* C34: every step in which a request of a turn settles appends its
\* messages to the session the turn was started on and stores the download
\* info there, whichever session is active by then, and leaves the record
\* of every other session as it was.
C34_AppliedToStartingSession ==
    [][\A t \in TurnIds :
         LET sid  == turns[t].sid
             msgs == sessions[sid].messages
         IN  /\ ClarifyReply(t, "questions")
                  => sessions'[sid].messages
                       = Append(msgs, Msg("assistant", "questions", t, 0, 0, 0))
             /\ \A h \in HistoryLengths :
                   GenerateReply(t, "ok", h)
                     => sessions'[sid].messages = msgs \o ThinkingMsgs(t, h)
             /\ \A out \in PreviewOutcomes :
                   PreviewReply(t, out)
                     => /\ sessions'[sid].messages
                             = Append(msgs, Msg("preview", "ready", t, 0,
                                                turns[t].dl, totalSlides(out)))
                        /\ sessions'[sid].lastDownloadId = turns[t].dl
                        /\ sessions'[sid].lastFilename = FilenameOf(turns[t].dl)
             /\ (\/ \E out \in ClarifyOutcomes : ClarifyReply(t, out)
                 \/ \E out \in GenerateOutcomes, h \in HistoryLengths :
                       GenerateReply(t, out, h)
                 \/ \E out \in PreviewOutcomes : PreviewReply(t, out)
                 \/ SettleAborted(t))
                   => \A s \in SessionIds :
                         s # sid => sessions'[s] = sessions[s]]_vars

\* a generate started on session 1 completed while session 2 was shown:
\* session 1 holds the download info and the preview message, session 2
\* is as it was loaded
C34_Witness ==
    /\ activeSessionId = 2
    /\ turns[1].sid = 1
    /\ turns[1].pc = "finished"
    /\ previewData.downloadId = 1
    /\ sessions[1].lastDownloadId = 1
    /\ sessions[1].messages[Len(sessions[1].messages)].role = "preview"
    /\ sessions[2].messages = StoredMessages
    /\ sessions[2].lastDownloadId = StoredDl


\* the session in which the artifact with download id d was produced
ArtifactSession(d) == IF d = StoredDl THEN 2 ELSE turns[d].sid

\* C35: previewData is empty or refers to an artifact produced in the
\* active session.
C35_PreviewBelongsToActive ==
    previewData # NoPreview
      => ArtifactSession(previewData.downloadId) = activeSessionId

\* C36: the reply of a preview-info fetch that was made for the artifact of
\* a session other than the active one leaves previewData as it is.
C36_LateInfoReplyIgnored ==
    [][\A d \in DlIds, out \in InfoOutcomes :
         (InfoFetchReply(d, out) /\ ArtifactSession(d) # activeSessionId)
           => previewData' = previewData]_vars


\* the ids of the sessions of a list, and the session with a given id
IdsOf(ss) == {ss[k].id : k \in 1..Len(ss)}

SessionOf(ss, id) == ss[CHOOSE k \in 1..Len(ss) : ss[k].id = id]

\* C38: addMessage, updateSession and updateSettings called with id S keep
\* the set of sessions and leave every session other than S exactly as it
\* was; called with an id that is not in the list they leave the list as
\* it was, so no session with that id appears.
C38_OnlyTargetChanges ==
    [][\A sid \in ArgIds, ok \in BOOLEAN :
         (\/ stAddMessage(sid, "user", ok)
          \/ stUpdateSession(sid, ok)
          \/ updateSettings(sid, ok))
           => /\ IdsOf(stSessions') = IdsOf(stSessions)
              /\ Len(stSessions') = Len(stSessions)
              /\ \A id \in IdsOf(stSessions) \ {sid} :
                    SessionOf(stSessions', id) = SessionOf(stSessions, id)
              /\ (sid \notin IdsOf(stSessions) => stSessions' = stSessions)
              /\ (sid \in IdsOf(stSessions)
                    => SessionOf(stSessions', sid) # SessionOf(stSessions, sid))]_vars

\* two operations were made, one addMessage on session 1 and one with an
\* id that is not in the list: session 1 has its third message and nothing
\* else differs from what was loaded
C38_Witness ==
    /\ stOps = 2
    /\ Len(stSessions) = StoredAtStart
    /\ StoredAtStart + 1 \notin IdsOf(stSessions)
    /\ SessionOf(stSessions, 1)
         = Session(1, "prompt", SessionOf(stSessions, 1).updatedAt,
                   <<"user", "assistant", "user">>, "default", 0)
    /\ \A id \in 2..StoredAtStart :
          SessionOf(stSessions, id)
            = Session(id, "prompt", id, <<"user", "assistant">>, "default", 0)


\* C37: activeSessionId is null or the id of a session of the list, also
\* after deleteSession of the active session and after the page is loaded
\* again.
C37_ActiveIdIsNullOrExisting ==
    activeSessionId = null \/ activeSessionId \in IdsOf(stSessions)


\* the roles of the messages a step appended to session sid
RolesAppended(sid) ==
    [k \in 1..(Len(sessions'[sid].messages) - Len(sessions[sid].messages)) |->
        sessions'[sid].messages[Len(sessions[sid].messages) + k].role]

====
